---- MODULE Spec2Model ----
(***************************************************************************)
(* Model of the CIFAR-10 ResNet9 notebook                                  *)
(* (src/CSC2516_Homework_5_VishnouVINAYAGAME.ipynb): the two data          *)
(* pipelines, the shape propagation of ResNet9.forward, the training loop  *)
(* and the three evaluation cells, executed in notebook order.             *)
(*                                                                         *)
(* Numerics that live in the framework are abstracted:                     *)
(*  - a gradient component is an integer in units of 0.1 (grad_clip = 1);  *)
(*  - a loss value is a small positive integer;                            *)
(*  - the learning rate held by the optimizer is represented by the        *)
(*    schedule position (OneCycleLR's last_epoch) it was computed for;     *)
(*  - the arg-max class of a forward pass is a function of the parameters  *)
(*    and the sample when the module is in eval mode, and is additionally  *)
(*    perturbed by a random dropout mask when it is in training mode;      *)
(*  - a learning-rate value is the point of a cosine segment, compared by  *)
(*    the monotonicity of the cosine, in units of 1e-7;                    *)
(*  - NaN is one distinguished value that absorbs addition and passes      *)
(*    through the gradient clamp.                                          *)
(* The sizes of the splits, the batch size and the number of epochs are    *)
(* inputs drawn from bounded sets (the notebook fixes 50000, 10000, 100    *)
(* and 40).                                                                *)
(*                                                                         *)
(* Specifications: Spec (finite arithmetic), SpecCycle (one batch per      *)
(* epoch and up to MaxCycleEpochs epochs, long enough for the whole        *)
(* learning-rate cycle) and SpecNonFinite (the criterion may return NaN).  *)
(***************************************************************************)
EXTENDS Integers, Sequences, FiniteSets, TLC

\* ------------------------------------------------------------------ bounds
MaxTrain == 3
MaxTest == 4
MaxBatch == 2
MaxEpochs == 2
\* Epochs of the long single-batch-per-epoch runs (SpecCycle).
MaxCycleEpochs == 10

\* --------------------------------------------------------- program constants
NumClasses == 10
in_channels == 3
ImageSize == 32
grad_clip == 1
\* OneCycleLR(max_lr=0.1): learning rates are integers in units of 1e-7.
max_lr == 1000000

classes_swapped ==
  <<"car", "plane", "bird", "cat", "deer", "dog", "frog", "horse", "ship",
    "truck">>

\* classes = ('plane', 'car', ...): the name of class i is classes[i + 1].
classes ==
  <<"plane", "car", "bird", "cat", "deer", "dog", "frog", "horse", "ship",
    "truck">>

\* Values a batch loss and a raw gradient component may take.
LossValues == {1, 2}
GradValues == {-2, -1, 0, 1, 2}
\* The gradient components the model carries (clip_grad_value_ treats every
\* component of every parameter alike).
Params == {"weight"}
\* Classes that occur as labels and as arg-max predictions.
Labels == {0, 1}
\* Dropout masks: mask 0 leaves the arg-max unchanged, mask 1 changes it.
DropoutMasks == {0, 1}

VARIABLES
  train_size, test_size, batch_size, num_epochs,
  pc, err,
  training, grad_enabled,
  epoch, i, it, data,
  fwd, loss, grad, batch_grad, step_ops,
  lr, last_epoch, total_steps, param_updates,
  running_loss, epoch_loss_sum, before_lr, after_lr,
  stdout, last_loss_line,
  correct, total,
  class_correct, class_total, hits,
  testset,
  used_for_update, counted_in_test,
  num_batches_tracked, params_nan

vars == <<train_size, test_size, batch_size, num_epochs, pc, err, training,
          grad_enabled, epoch, i, it, data, fwd, loss, grad, batch_grad,
          step_ops, lr, last_epoch, total_steps, param_updates, running_loss,
          epoch_loss_sum, before_lr, after_lr, stdout, last_loss_line, correct,
          total, class_correct, class_total, hits, testset,
          used_for_update, counted_in_test, num_batches_tracked,
          params_nan>>

\* ----------------------------------------------------------------- helpers
\* A name that is not bound yet: the record-valued names hold None, the
\* number-valued ones hold Unset (err holds the string "None").
None == [none |-> TRUE]
Unset == 0 - 1

RECURSIVE SetToSeq(_)
\* The elements of a finite set of integers in increasing order.
SetToSeq(S) ==
  IF S = {} THEN <<>>
  ELSE LET m == CHOOSE x \in S : \A y \in S : x <= y
       IN <<m>> \o SetToSeq(S \ {m})

Min(a, b) == IF a <= b THEN a ELSE b

\* The floating-point NaN a loss, a gradient or a loss sum may be, encoded as
\* an integer no finite loss, gradient or sum of the model takes.
NaN == 0 - 1000

\* a + b in floating point: NaN when either operand is.
Plus(a, b) == IF a = NaN \/ b = NaN THEN NaN ELSE a + b

\* ------------------------------------------------------------ data pipelines
trainloader == [dataset |-> "train", shuffle |-> TRUE]
testloader_on_trainset == [dataset |-> "train", shuffle |-> FALSE]
testloader == [dataset |-> "test", shuffle |-> FALSE]

DatasetSize(ds) == IF ds = "train" THEN train_size ELSE test_size

\* len(DataLoader): drop_last is False, so the ragged last batch counts.
LenLoader(loader) ==
  (DatasetSize(loader.dataset) + batch_size - 1) \div batch_size

\* iter(loader): every index of the dataset is still to be yielded.
IterLoader(loader) ==
  [loader |-> loader, remaining |-> 1..DatasetSize(loader.dataset)]

\* The batches next(iterator) may yield: min(batch_size, remaining) indices,
\* the lowest ones in order when the loader does not shuffle, any of the
\* remaining ones when it does (the order inside a shuffled batch is not
\* observable by the loops that consume it, so it is listed increasing).
NextBatches(iter) ==
  LET n == Min(batch_size, Cardinality(iter.remaining))
  IN IF iter.loader.shuffle
     THEN {S \in SUBSET iter.remaining : Cardinality(S) = n}
     ELSE {{x \in iter.remaining :
              Cardinality({y \in iter.remaining : y < x}) < n}}

Batch(iter, S) == [split |-> iter.loader.dataset, idx |-> SetToSeq(S)]

Advance(iter, S) == [iter EXCEPT !.remaining = @ \ S]

\* Labels of the train split (an immutable input; a fixed labelling).
TrainLabel(k) == (k - 1) % Cardinality(Labels)

\* ------------------------------------------------------- ResNet9 shapes
ShapeError == <<>>

Conv2d(s, cin, cout, kernel_size, padding) ==
  IF s = ShapeError \/ Len(s) # 4 THEN ShapeError
  ELSE IF s[2] # cin THEN ShapeError
  ELSE LET h == s[3] + 2 * padding - kernel_size + 1
           w == s[4] + 2 * padding - kernel_size + 1
       IN IF h < 1 \/ w < 1 THEN ShapeError ELSE <<s[1], cout, h, w>>

BatchNorm2d(s, c) ==
  IF s = ShapeError \/ Len(s) # 4 THEN ShapeError
  ELSE IF s[2] # c THEN ShapeError ELSE s

MaxPool2d(s, k) ==
  IF s = ShapeError \/ Len(s) # 4 THEN ShapeError
  ELSE IF s[3] \div k < 1 \/ s[4] \div k < 1 THEN ShapeError
  ELSE <<s[1], s[2], s[3] \div k, s[4] \div k>>

Flatten(s) ==
  IF s = ShapeError \/ Len(s) # 4 THEN ShapeError
  ELSE <<s[1], s[2] * s[3] * s[4]>>

Linear(s, nin, nout) ==
  IF s = ShapeError \/ Len(s) # 2 THEN ShapeError
  ELSE IF s[2] # nin THEN ShapeError ELSE <<s[1], nout>>

conv_block_nopad(s, cin, cout, pool) ==
  LET c == BatchNorm2d(Conv2d(s, cin, cout, 3, 0), cout)
  IN IF pool THEN MaxPool2d(c, 2) ELSE c

\* Conv2d(kernel_size=3, padding=1) -> BatchNorm2d -> ReLU [-> MaxPool2d(2)]
conv_block(s, cin, cout, pool) ==
  LET c == BatchNorm2d(Conv2d(s, cin, cout, 3, 1), cout)
  IN IF pool THEN MaxPool2d(c, 2) ELSE c

\* Sequential(conv_block(c, c), conv_block(c, c), Dropout(0.3))
res_block(s, c) == conv_block(conv_block(s, c, c, FALSE), c, c, FALSE)

\* a + b: equal shapes add elementwise; anything else would need broadcasting.
AddShapes(a, b) == IF a = b THEN a ELSE ShapeError

classifier(s, num_classes) ==
  Linear(Linear(Linear(Flatten(MaxPool2d(s, 4)), 512, 256), 256, 128),
         128, num_classes)

\* The shapes ResNet9.forward goes through for an input batch of shape xb.
ForwardShapes(xb) ==
  LET c1 == conv_block(xb, in_channels, 64, FALSE)
      c2 == conv_block(c1, 64, 128, TRUE)
      r1 == res_block(c2, 128)
      a1 == AddShapes(r1, c2)
      c3 == conv_block(a1, 128, 256, TRUE)
      c4 == conv_block(c3, 256, 512, TRUE)
      r2 == res_block(c4, 512)
      a2 == AddShapes(r2, c4)
  IN [res1_branch |-> r1, res1_skip |-> c2,
      res2_branch |-> r2, res2_skip |-> c4,
      out |-> classifier(a2, NumClasses)]

\* A batch of n normalized 3-channel 32x32 images.
InputShape(n) == <<n, in_channels, ImageSize, ImageSize>>

\* ------------------------------------------------------- residual blocks
\* Values one element of an activation may take (non-negative, after ReLU);
\* multiples of 7 so that the rescaling by 1 / (1 - 0.3) is exact.
ElemValues == {0, 7, 14}

\* nn.Dropout(p) on one element, p in tenths: the identity in eval mode; in
\* training mode the element is zeroed unless it is kept, and a kept element
\* is scaled by 1 / (1 - p).
Dropout(x, p10, keep) ==
  IF ~training THEN x
  ELSE IF keep THEN (10 * x) \div (10 - p10) ELSE 0

\* self.res1 / self.res2 on one element whose two conv_blocks computed
\* branch: Sequential(conv_block, conv_block, nn.Dropout(p=0.3)).
res_dropout(branch, keep) == Dropout(branch, 3, keep)

residual_dropout_last(x, branch, keep) == Dropout(branch + x, 3, keep)

\* out = self.res1(out) + out, on one element: x is the block's input.
residual(x, branch, keep) == res_dropout(branch, keep) + x

\* ------------------------------------------------------------ forward pass
\* The arg-max class the network computes for a sample without dropout: a
\* function of the parameters (identified by the number of updates applied)
\* and of the sample.  With NaN parameters every score is NaN, and torch.max
\* returns the position of the first NaN: class 0.
Argmax(split, k) ==
  IF params_nan THEN 0 ELSE (k + param_updates) % Cardinality(Labels)

\* The masks the Dropout layers may draw for a batch of n samples: random
\* when the module is in training mode, the identity in eval mode.
MaskChoices(n) == [1..n -> IF training THEN DropoutMasks ELSE {0}]

\* torch.max(outputs, 1): the predicted class of each sample of the batch.
Predicted(batch, masks) ==
  [j \in 1..Len(batch.idx) |->
     IF params_nan THEN Argmax(batch.split, batch.idx[j])
     ELSE (Argmax(batch.split, batch.idx[j]) + masks[j])
            % Cardinality(Labels)]

\* nn.BatchNorm2d.forward: in training mode every call updates the layer's
\* running_mean / running_var buffers and counts the batch in
\* num_batches_tracked (torch.no_grad() does not prevent it); in eval mode the
\* buffers are only read.
BatchNormTrack(n) == IF training THEN n + 1 ELSE n

\* What one call of model(inputs) is: where it was made, the module's mode
\* flag, whether autograd records it, the shapes it goes through, and what a
\* residual block returns for an element <<input, branch, kept>>.
ForwardPass(ctx, batch) ==
  [ctx |-> ctx,
   split |-> batch.split,
   n |-> Len(batch.idx),
   mode |-> IF training THEN "train" ELSE "eval",
   dropout_active |-> training,
   grad_enabled |-> grad_enabled,
   shapes |-> ForwardShapes(InputShape(Len(batch.idx))),
   res |-> [e \in ElemValues \X ElemValues \X BOOLEAN |->
              residual(e[1], e[2], e[3])]]

Samples(batch) == {<<batch.split, batch.idx[j]>> : j \in 1..Len(batch.idx)}

\* -------------------------------------------------------------------- Init
\* The state the notebook is in when the training cell starts, for the sizes
\* and the number of epochs already chosen.
InitState ==
  /\ test_size = Unset
  /\ pc = "epoch_loop"
  /\ err = "None"
  /\ training = TRUE
  /\ grad_enabled = TRUE
  /\ epoch = -1
  /\ i = -1
  /\ it = None
  /\ data = None
  /\ fwd = None
  /\ loss = Unset
  /\ grad = [p \in Params |-> 0]
  /\ batch_grad = [p \in Params |-> 0]
  /\ step_ops = <<>>
  /\ lr = 0
  /\ last_epoch = 0
  /\ total_steps = num_epochs * LenLoader(trainloader)
  /\ param_updates = 0
  /\ running_loss = 0
  /\ epoch_loss_sum = 0
  /\ before_lr = Unset
  /\ after_lr = Unset
  /\ stdout = <<>>
  /\ last_loss_line = None
  /\ correct = 0
  /\ total = 0
  /\ class_correct = [k \in 0..(NumClasses - 1) |-> 0]
  /\ class_total = [k \in 0..(NumClasses - 1) |-> 0]
  /\ hits = {}
  /\ testset = None
  /\ used_for_update = {}
  /\ counted_in_test = {}
  /\ num_batches_tracked = 0
  /\ params_nan = FALSE

Init ==
  /\ train_size \in 1..MaxTrain
  /\ batch_size \in 1..MaxBatch
  /\ num_epochs \in 1..MaxEpochs
  /\ InitState

\* Long runs: one full batch per epoch, up to MaxCycleEpochs epochs, so that
\* the schedule has a total number of steps of which 30% is a whole number.
InitCycle ==
  /\ train_size = MaxBatch
  /\ batch_size = MaxBatch
  /\ num_epochs \in 1..MaxCycleEpochs
  /\ InitState

config == <<train_size, batch_size, num_epochs, total_steps>>
evalVars == <<correct, total, class_correct, class_total, hits, test_size,
              testset, counted_in_test>>
modeVars == <<training, grad_enabled>>
schedVars == <<lr, last_epoch, before_lr, after_lr>>
logVars == <<running_loss, epoch_loss_sum, stdout, last_loss_line>>

\* ------------------------------------------------------------- OneCycleLR
\* OneCycleLR(optimizer, max_lr=0.1, steps_per_epoch, epochs) with its
\* defaults div_factor = 25, final_div_factor = 1e4, pct_start = 0.3,
\* anneal_strategy = 'cos', three_phase = False.
initial_lr == max_lr \div 25
min_lr == initial_lr \div 10000

\* Ten times the end step of the warm-up phase, float(pct_start * T) - 1.
WarmupEnd10(T) == 3 * T - 10

get_lr_no_warmup(step_num, T) ==
  [start_lr |-> max_lr, end_lr |-> min_lr,
   num |-> 10 * step_num, den |-> 10 * T]

\* OneCycleLR.get_lr() at step step_num of T: the phase the step falls in and
\* pct = (step_num - start_step) / (end_step - start_step) as the fraction
\* num/den; the learning rate is _annealing_cos(start_lr, end_lr, pct)
\*   = end_lr + (start_lr - end_lr) / 2 * (cos(pi * pct) + 1).
get_lr(step_num, T) ==
  IF 10 * step_num <= WarmupEnd10(T)
  THEN [start_lr |-> initial_lr, end_lr |-> max_lr,
        num |-> 10 * step_num, den |-> WarmupEnd10(T)]
  ELSE [start_lr |-> max_lr, end_lr |-> min_lr,
        num |-> 10 * step_num - WarmupEnd10(T),
        den |-> 10 * (T - 1) - WarmupEnd10(T)]

\* cos(pi * pct) is symmetric about pct = 1: the pct in [0, 1] with the same
\* cosine (as a numerator over the same den).
Fold(v) == IF v.num > v.den THEN 2 * v.den - v.num ELSE v.num

\* The learning rate where the cosine is rational to compute: start_lr at
\* pct = 0, end_lr at pct = 1, their mean at pct = 1/2; Unset elsewhere.
LrValue(v) ==
  IF Fold(v) = 0 THEN v.start_lr
  ELSE IF Fold(v) = v.den THEN v.end_lr
  ELSE IF 2 * Fold(v) = v.den THEN (v.start_lr + v.end_lr) \div 2
  ELSE Unset

\* a < b for two learning rates of the same phase: the cosine is strictly
\* decreasing on [0, pi].
LrLess(a, b) ==
  /\ a.start_lr = b.start_lr /\ a.end_lr = b.end_lr /\ a.den = b.den
  /\ IF a.start_lr < a.end_lr THEN Fold(a) < Fold(b) ELSE Fold(a) > Fold(b)

\* cos + 1 lies in [0, 2]: the learning rate lies between its two ends.
LrUpper(v) == IF v.start_lr > v.end_lr THEN v.start_lr ELSE v.end_lr

\* ----------------------------------------------------------- training loop
EpochLoopStopsEarly ==
  /\ pc = "epoch_loop"
  /\ IF epoch + 1 < num_epochs /\ epoch + 1 < 1
     THEN /\ epoch' = epoch + 1
          /\ running_loss' = 0
          /\ it' = IterLoader(trainloader)
          /\ i' = -1
          /\ pc' = "next_batch"
     ELSE /\ pc' = "finished"
          /\ UNCHANGED <<epoch, running_loss, it, i>>
  /\ UNCHANGED <<params_nan, num_batches_tracked,
                 config, err, modeVars, data, fwd, loss, grad, batch_grad,
                 step_ops, schedVars, param_updates, epoch_loss_sum, stdout,
                 last_loss_line, evalVars, used_for_update>>

\* for epoch in range(num_epochs): running_loss = 0.0; enumerate(trainloader)
EpochLoop ==
  /\ pc = "epoch_loop"
  /\ IF epoch + 1 < num_epochs
     THEN /\ epoch' = epoch + 1
          /\ running_loss' = 0
          /\ it' = IterLoader(trainloader)
          /\ i' = -1
          /\ pc' = "next_batch"
     ELSE /\ pc' = "finished"
          /\ UNCHANGED <<epoch, running_loss, it, i>>
  /\ UNCHANGED <<params_nan, num_batches_tracked,
                 config, err, modeVars, data, fwd, loss, grad, batch_grad,
                 step_ops, schedVars, param_updates, epoch_loss_sum, stdout,
                 last_loss_line, evalVars, used_for_update>>

\* for i, data in enumerate(trainloader, 0): the next batch, or the end of
\* the epoch's loop.
NextBatch ==
  /\ pc = "next_batch"
  /\ IF it.remaining = {}
     THEN /\ pc' = "print_lr"
          /\ UNCHANGED <<i, it, data, step_ops>>
     ELSE \E S \in NextBatches(it) :
            /\ data' = Batch(it, S)
            /\ it' = Advance(it, S)
            /\ i' = i + 1
            /\ step_ops' = <<>>
            /\ pc' = "forward"
  /\ UNCHANGED <<params_nan, num_batches_tracked,
                 config, err, modeVars, epoch, fwd, loss, grad, batch_grad,
                 schedVars, param_updates, logVars, evalVars, used_for_update>>

\* outputs = model(inputs)
Forward ==
  /\ pc = "forward"
  /\ fwd' = ForwardPass("train", data)
  /\ step_ops' = Append(step_ops, "forward")
  /\ IF fwd'.shapes.out = ShapeError
     THEN err' = "RuntimeError" /\ pc' = "aborted"
     ELSE err' = err /\ pc' = "criterion"
  /\ num_batches_tracked' = BatchNormTrack(num_batches_tracked)
  /\ UNCHANGED <<params_nan,
                 config, modeVars, epoch, i, it, data, loss, grad, batch_grad,
                 schedVars, param_updates, logVars, evalVars, used_for_update>>

\* loss = criterion(outputs, labels), when the loss is finite (it cannot be
\* once the parameters are NaN).
Criterion ==
  /\ pc = "criterion"
  /\ ~params_nan
  /\ loss' \in LossValues
  /\ epoch_loss_sum' = Plus(epoch_loss_sum, loss')
  /\ step_ops' = Append(step_ops, "loss")
  /\ pc' = "zero_grad"
  /\ UNCHANGED <<params_nan, num_batches_tracked,
                 config, err, modeVars, epoch, i, it, data, fwd, grad,
                 batch_grad, schedVars, param_updates, running_loss, stdout,
                 last_loss_line, evalVars, used_for_update>>

\* loss = criterion(outputs, labels), when the loss is not finite: the
\* statement returns the NaN like any other value.
CriterionNonFinite ==
  /\ pc = "criterion"
  /\ loss' = NaN
  /\ epoch_loss_sum' = Plus(epoch_loss_sum, loss')
  /\ step_ops' = Append(step_ops, "loss")
  /\ pc' = "zero_grad"
  /\ UNCHANGED <<params_nan, num_batches_tracked,
                 config, err, modeVars, epoch, i, it, data, fwd, grad,
                 batch_grad, schedVars, param_updates, running_loss, stdout,
                 last_loss_line, evalVars, used_for_update>>

ZeroGradSkipped ==
  /\ pc = "zero_grad"
  /\ grad' = grad
  /\ step_ops' = Append(step_ops, "zero_grad")
  /\ pc' = "backward"
  /\ UNCHANGED <<params_nan, num_batches_tracked,
                 config, err, modeVars, epoch, i, it, data, fwd, loss,
                 batch_grad, schedVars, param_updates, logVars, evalVars,
                 used_for_update>>

\* optimizer.zero_grad()
ZeroGrad ==
  /\ pc = "zero_grad"
  /\ grad' = [p \in Params |-> 0]
  /\ step_ops' = Append(step_ops, "zero_grad")
  /\ pc' = "backward"
  /\ UNCHANGED <<params_nan, num_batches_tracked,
                 config, err, modeVars, epoch, i, it, data, fwd, loss,
                 batch_grad, schedVars, param_updates, logVars, evalVars,
                 used_for_update>>

\* The gradients loss.backward() may compute: NaN in every component when
\* the loss is NaN.
BackwardGrads ==
  IF loss = NaN THEN {[p \in Params |-> NaN]} ELSE [Params -> GradValues]

\* loss.backward(): the gradient of this batch's loss is accumulated into
\* every parameter's .grad.
Backward ==
  /\ pc = "backward"
  /\ \E g \in BackwardGrads :
       /\ batch_grad' = g
       /\ grad' = [p \in Params |-> Plus(grad[p], g[p])]
  /\ step_ops' = Append(step_ops, "backward")
  /\ pc' = "clip"
  /\ UNCHANGED <<params_nan, num_batches_tracked,
                 config, err, modeVars, epoch, i, it, data, fwd, loss,
                 schedVars, param_updates, logVars, evalVars, used_for_update>>

clip_upper_only(g, clip_value) == IF g > clip_value THEN clip_value ELSE g

\* nn.utils.clip_grad_value_: clamp one component to [-clip_value, clip_value]
\* (clamp_ leaves a NaN as it is).
clip_grad_value_(g, clip_value) ==
  IF g = NaN THEN NaN
  ELSE IF g > clip_value THEN clip_value
  ELSE IF g < -clip_value THEN -clip_value ELSE g

\* if grad_clip: nn.utils.clip_grad_value_(model.parameters(), grad_clip)
ClipGrad ==
  /\ pc = "clip"
  /\ grad' = IF grad_clip # 0
             THEN [p \in Params |-> clip_grad_value_(grad[p], grad_clip)]
             ELSE grad
  /\ step_ops' = Append(step_ops, "clip")
  /\ pc' = "optimizer_step"
  /\ UNCHANGED <<params_nan, num_batches_tracked,
                 config, err, modeVars, epoch, i, it, data, fwd, loss,
                 batch_grad, schedVars, param_updates, logVars, evalVars,
                 used_for_update>>

\* optimizer.step(): one update of the parameters from .grad at the
\* learning rate the optimizer holds.  A NaN gradient makes the parameters
\* (and the momentum buffers) NaN for the rest of the run.
OptimizerStep ==
  /\ pc = "optimizer_step"
  /\ param_updates' = param_updates + 1
  /\ params_nan' = (params_nan \/ \E p \in Params : grad[p] = NaN)
  /\ used_for_update' = used_for_update \cup Samples(data)
  /\ batch_grad' = [p \in Params |-> 0]
  /\ step_ops' = Append(step_ops, "optimizer")
  /\ pc' = "log_loss"
  /\ UNCHANGED <<num_batches_tracked,
                 config, err, modeVars, epoch, i, it, data, fwd, loss, grad,
                 schedVars, logVars, evalVars>>

IsEpochEndFirstBatch(k, n) == k % n = 0

\* not (i+1) % len(trainloader)
IsEpochEnd(k, n) == (k + 1) % n = 0

\* running_loss += loss.item(); at the epoch's last batch print the mean
\* loss and reset running_loss.
LogLoss ==
  /\ pc = "log_loss"
  /\ IF IsEpochEnd(i, LenLoader(trainloader))
     THEN /\ last_loss_line' = [epoch |-> epoch + 1,
                                sum |-> Plus(running_loss, loss),
                                batches |-> LenLoader(trainloader)]
          /\ stdout' = Append(stdout, <<"loss", epoch + 1>>)
          /\ running_loss' = 0
     ELSE /\ running_loss' = Plus(running_loss, loss)
          /\ UNCHANGED <<stdout, last_loss_line>>
  /\ pc' = "scheduler_step"
  /\ UNCHANGED <<params_nan, num_batches_tracked,
                 config, err, modeVars, epoch, i, it, data, fwd, loss, grad,
                 batch_grad, step_ops, schedVars, param_updates, epoch_loss_sum,
                 evalVars, used_for_update>>

SchedulerStepPerEpoch ==
  /\ pc = "scheduler_step"
  /\ IF IsEpochEnd(i, LenLoader(trainloader))
     THEN /\ before_lr' = lr
          /\ last_epoch' = last_epoch + 1
          /\ lr' = last_epoch + 1
          /\ after_lr' = last_epoch + 1
     ELSE UNCHANGED <<before_lr, last_epoch, lr, after_lr>>
  /\ step_ops' = Append(step_ops, "scheduler")
  /\ pc' = "next_batch"
  /\ UNCHANGED <<params_nan, num_batches_tracked,
                 config, err, modeVars, epoch, i, it, data, fwd, loss, grad,
                 batch_grad, param_updates, logVars, evalVars, used_for_update>>

\* before_lr = lr; scheduler.step(); after_lr = lr.  OneCycleLR raises
\* ValueError when stepped more than total_steps times.
SchedulerStep ==
  /\ pc = "scheduler_step"
  /\ before_lr' = lr
  /\ IF last_epoch + 1 > total_steps
     THEN /\ err' = "ValueError"
          /\ pc' = "aborted"
          /\ UNCHANGED <<lr, last_epoch, after_lr, step_ops>>
     ELSE /\ last_epoch' = last_epoch + 1
          /\ lr' = last_epoch + 1
          /\ after_lr' = last_epoch + 1
          /\ step_ops' = Append(step_ops, "scheduler")
          /\ err' = err
          /\ pc' = "next_batch"
  /\ UNCHANGED <<params_nan, num_batches_tracked,
                 config, modeVars, epoch, i, it, data, fwd, loss, grad,
                 batch_grad, param_updates, logVars, evalVars, used_for_update>>

\* print("Epoch %d: lr %.5f -> %.5f" % (epoch+1, before_lr, after_lr))
PrintLr ==
  /\ pc = "print_lr"
  /\ stdout' = Append(stdout, <<"lr", epoch + 1, before_lr, after_lr>>)
  /\ epoch_loss_sum' = 0
  /\ last_loss_line' = None
  /\ pc' = "epoch_loop"
  /\ UNCHANGED <<params_nan, num_batches_tracked,
                 config, err, modeVars, epoch, i, it, data, fwd, loss, grad,
                 batch_grad, step_ops, schedVars, param_updates, running_loss,
                 evalVars, used_for_update>>

\* print('Finished Training')
FinishedTraining ==
  /\ pc = "finished"
  /\ stdout' = Append(stdout, <<"finished">>)
  /\ pc' = "train_eval"
  /\ UNCHANGED <<params_nan, num_batches_tracked,
                 config, err, modeVars, epoch, i, it, data, fwd, loss, grad,
                 batch_grad, step_ops, schedVars, param_updates, running_loss,
                 epoch_loss_sum, last_loss_line, evalVars, used_for_update>>

\* -------------------------------------------------------------- evaluation
trainVars == <<epoch, i, loss, grad, batch_grad, step_ops, schedVars,
               param_updates, logVars, used_for_update>>

\* (predicted == labels).sum().item()
CountEqual(predicted, labels) ==
  Cardinality({j \in 1..Len(predicted) : predicted[j] = labels[j]})

\* correct = 0; total = 0; with torch.no_grad(): for data in trainloader
TrainEvalStart ==
  /\ pc = "train_eval"
  /\ correct' = 0
  /\ total' = 0
  /\ grad_enabled' = FALSE
  /\ it' = IterLoader(trainloader)
  /\ pc' = "train_eval_loop"
  /\ UNCHANGED <<params_nan, num_batches_tracked,
                 config, err, training, fwd, data, trainVars, stdout,
                 class_correct,
                 class_total, hits, test_size, testset, counted_in_test>>

TrainEvalBatchUpdates ==
  /\ pc = "train_eval_loop"
  /\ it.remaining # {}
  /\ \E S \in NextBatches(it) :
       LET batch == Batch(it, S)
           labels == [j \in 1..Len(batch.idx) |-> TrainLabel(batch.idx[j])]
       IN \E masks \in MaskChoices(Len(batch.idx)) :
            /\ it' = Advance(it, S)
            /\ data' = batch
            /\ fwd' = ForwardPass("train_eval", batch)
            /\ total' = total + Len(labels)
            /\ correct' = correct + CountEqual(Predicted(batch, masks), labels)
  /\ param_updates' = param_updates + 1
  /\ num_batches_tracked' = BatchNormTrack(num_batches_tracked)
  /\ UNCHANGED <<params_nan,
                 config, pc, err, modeVars, epoch, i, loss, grad, batch_grad,
                 step_ops,
                 schedVars, logVars, used_for_update, class_correct,
                 class_total, hits, test_size, testset, counted_in_test>>

\* One batch of the train-set accuracy loop.
TrainEvalBatch ==
  /\ pc = "train_eval_loop"
  /\ it.remaining # {}
  /\ \E S \in NextBatches(it) :
       LET batch == Batch(it, S)
           labels == [j \in 1..Len(batch.idx) |-> TrainLabel(batch.idx[j])]
       IN \E masks \in MaskChoices(Len(batch.idx)) :
            /\ it' = Advance(it, S)
            /\ data' = batch
            /\ fwd' = ForwardPass("train_eval", batch)
            /\ total' = total + Len(labels)
            /\ correct' = correct + CountEqual(Predicted(batch, masks), labels)
  /\ num_batches_tracked' = BatchNormTrack(num_batches_tracked)
  /\ UNCHANGED <<params_nan,
                 config, pc, err, modeVars, trainVars, stdout, class_correct,
                 class_total, hits, test_size, testset, counted_in_test>>

\* print('Accuracy of the network on the 50 000 train images: ...')
TrainEvalPrint ==
  /\ pc = "train_eval_loop"
  /\ it.remaining = {}
  /\ grad_enabled' = TRUE
  /\ stdout' = Append(stdout, <<"train_accuracy">>)
  /\ pc' = "test_eval"
  /\ UNCHANGED <<params_nan, num_batches_tracked,
                 config, err, training, it, fwd, epoch, i, data, loss, grad,
                 batch_grad, step_ops, schedVars, param_updates, running_loss,
                 epoch_loss_sum, last_loss_line, evalVars, used_for_update>>

\* The test splits the run may be given: a size, and a labelling of its
\* samples that cycles through the first `cycle` classes from class `first`
\* in steps of `stride`.  The small splits are constant (stride 0) or
\* alternate between two classes (stride 1); one more split holds one sample
\* of each of the NumClasses classes, as CIFAR-10's test split holds all of
\* them.  The split is an immutable input that nothing reads before the
\* test-set evaluation: it is drawn when the test pipeline is first iterated.
TestSets ==
  IF testset = None
  THEN [size : 1..MaxTest, first : Labels, stride : {0, 1},
        cycle : {Cardinality(Labels)}]
       \cup {[size |-> NumClasses, first |-> 0, stride |-> 1,
               cycle |-> NumClasses]}
  ELSE {testset}

\* The label of sample k of the test split.
TestLabel(k) == (testset.first + testset.stride * (k - 1)) % testset.cycle

\* correct = 0; total = 0; with torch.no_grad(): for data in testloader
TestEvalStart ==
  /\ pc = "test_eval"
  /\ correct' = 0
  /\ total' = 0
  /\ grad_enabled' = FALSE
  /\ \E ts \in TestSets :
       /\ testset' = ts
       /\ test_size' = ts.size
       /\ it' = [loader |-> testloader, remaining |-> 1..ts.size]
  /\ pc' = "test_eval_loop"
  /\ UNCHANGED <<params_nan, num_batches_tracked,
                 config, err, training, fwd, data, trainVars, stdout,
                 class_correct, class_total, hits, counted_in_test>>

\* One batch of the test-set accuracy loop.
TestEvalBatch ==
  /\ pc = "test_eval_loop"
  /\ it.remaining # {}
  /\ \E S \in NextBatches(it) :
       LET batch == Batch(it, S)
       IN \E masks \in MaskChoices(Len(batch.idx)) :
            LET labels == [j \in 1..Len(batch.idx) |-> TestLabel(batch.idx[j])]
            IN /\ it' = Advance(it, S)
               /\ data' = batch
               /\ fwd' = ForwardPass("test_eval", batch)
               /\ total' = total + Len(labels)
               /\ correct' =
                    correct + CountEqual(Predicted(batch, masks), labels)
               /\ counted_in_test' = counted_in_test \cup Samples(batch)
  /\ num_batches_tracked' = BatchNormTrack(num_batches_tracked)
  /\ UNCHANGED <<params_nan,
                 config, pc, err, modeVars, trainVars, stdout, class_correct,
                 class_total, hits, test_size, testset>>

\* print('Accuracy of the network on the 10 000 test images: ...')
TestEvalPrint ==
  /\ pc = "test_eval_loop"
  /\ it.remaining = {}
  /\ grad_enabled' = TRUE
  /\ stdout' = Append(stdout, <<"test_accuracy">>)
  /\ pc' = "per_class"
  /\ UNCHANGED <<params_nan, num_batches_tracked,
                 config, err, training, it, fwd, epoch, i, data, loss, grad,
                 batch_grad, step_ops, schedVars, param_updates, running_loss,
                 epoch_loss_sum, last_loss_line, evalVars, used_for_update>>

\* class_correct = [0.]*10; class_total = [0.]*10; with torch.no_grad(): ...
PerClassStart ==
  /\ pc = "per_class"
  /\ class_correct' = [k \in 0..(NumClasses - 1) |-> 0]
  /\ class_total' = [k \in 0..(NumClasses - 1) |-> 0]
  /\ hits' = {}
  /\ grad_enabled' = FALSE
  /\ it' = IterLoader(testloader)
  /\ pc' = "per_class_loop"
  /\ UNCHANGED <<params_nan, num_batches_tracked,
                 config, err, training, fwd, data, trainVars, stdout, correct,
                 total, test_size, testset, counted_in_test>>

\* How many iterations of "for i in range(batch_size)" complete on a batch of
\* n samples: labels[i] raises IndexError for i >= n, and c, squeezed to a
\* 0-d tensor when n = 1, cannot be indexed at all.
Counted(n) == IF n = 1 THEN 0 ELSE Min(n, batch_size)

Raises(n) == n = 1 \/ n < batch_size

TallyByPrediction(tally, labels, predicted, m, by) ==
  [k \in DOMAIN tally |->
     tally[k] + Cardinality({j \in 1..m : predicted[j] = k /\ by[j]})]

\* class_correct[label] += c[i].item() and class_total[label] += 1 over the
\* first m samples of the batch: by[j] is the amount sample j adds.
Tally(tally, labels, predicted, m, by) ==
  [k \in DOMAIN tally |->
     tally[k] + Cardinality({j \in 1..m : labels[j] = k /\ by[j]})]

\* One batch of the per-class accuracy loop.
PerClassBatch ==
  /\ pc = "per_class_loop"
  /\ it.remaining # {}
  /\ \E S \in NextBatches(it) :
       LET batch == Batch(it, S)
           n == Len(batch.idx)
           m == Counted(n)
       IN \E masks \in MaskChoices(n) :
            LET labels == [j \in 1..n |-> TestLabel(batch.idx[j])]
                predicted == Predicted(batch, masks)
                c == [j \in 1..n |-> predicted[j] = labels[j]]
                one == [j \in 1..n |-> TRUE]
            IN /\ it' = Advance(it, S)
               /\ data' = batch
               /\ fwd' = ForwardPass("per_class", batch)
               /\ class_correct' = Tally(class_correct, labels, predicted, m, c)
               /\ class_total' = Tally(class_total, labels, predicted, m, one)
               /\ hits' = hits \cup {batch.idx[j] : j \in {x \in 1..m : c[x]}}
               /\ counted_in_test' = counted_in_test \cup
                    {<<batch.split, batch.idx[j]>> : j \in 1..m}
               /\ IF Raises(n)
                  THEN err' = "IndexError" /\ pc' = "aborted"
                  ELSE err' = err /\ pc' = pc
  /\ num_batches_tracked' = BatchNormTrack(num_batches_tracked)
  /\ UNCHANGED <<params_nan,
                 config, modeVars, trainVars, stdout, correct, total,
                 test_size, testset>>

\* The per-class loop is exhausted: leave the no_grad block, for i in range(10)
PerClassEnd ==
  /\ pc = "per_class_loop"
  /\ it.remaining = {}
  /\ grad_enabled' = TRUE
  /\ i' = 0
  /\ pc' = "report"
  /\ UNCHANGED <<params_nan, num_batches_tracked,
                 config, err, training, it, fwd, epoch, data, loss, grad,
                 batch_grad, step_ops, schedVars, param_updates, logVars,
                 evalVars, used_for_update>>

\* print('Accuracy of %5s : %2d %%' % (classes[i],
\*        100 * class_correct[i] / class_total[i]))
ReportClass ==
  /\ pc = "report"
  /\ IF class_total[i] = 0
     THEN /\ err' = "ZeroDivisionError"
          /\ pc' = "aborted"
          /\ UNCHANGED <<i, stdout>>
     ELSE /\ stdout' = Append(stdout, <<"class", classes[i + 1]>>)
          /\ err' = err
          /\ IF i + 1 < NumClasses
             THEN i' = i + 1 /\ pc' = pc
             ELSE i' = i /\ pc' = "done"
  /\ UNCHANGED <<params_nan, num_batches_tracked,
                 config, modeVars, it, fwd, epoch, data, loss, grad,
                 batch_grad, step_ops, schedVars, param_updates, running_loss,
                 epoch_loss_sum, last_loss_line, evalVars, used_for_update>>

\* -------------------------------------------------------------------- Next
Next ==
  \/ EpochLoop
  \/ NextBatch
  \/ Forward
  \/ Criterion
  \/ ZeroGrad
  \/ Backward
  \/ ClipGrad
  \/ OptimizerStep
  \/ LogLoss
  \/ SchedulerStep
  \/ PrintLr
  \/ FinishedTraining
  \/ TrainEvalStart
  \/ TrainEvalBatch
  \/ TrainEvalPrint
  \/ TestEvalStart
  \/ TestEvalBatch
  \/ TestEvalPrint
  \/ PerClassStart
  \/ PerClassBatch
  \/ PerClassEnd
  \/ ReportClass

Spec == Init /\ [][Next]_vars

SpecCycle == InitCycle /\ [][Next]_vars

\* The run when the arithmetic may leave the finite range: criterion may
\* return a NaN loss at any step.
NextNonFinite == Next \/ CriterionNonFinite

SpecNonFinite == Init /\ [][NextNonFinite]_vars

\* ================================================================== claims
CeilDiv(n, b) == CHOOSE q \in 0..n : q * b >= n /\ (q - 1) * b < n

RECURSIVE SumFn(_, _)
SumFn(f, S) ==
  IF S = {} THEN 0
  ELSE LET k == CHOOSE x \in S : TRUE IN f[k] + SumFn(f, S \ {k})

IsPrefix(a, b) ==
  Len(a) <= Len(b) /\ \A k \in 1..Len(a) : a[k] = b[k]

Count(seq, x) == Cardinality({k \in 1..Len(seq) : seq[k] = x})

Classes == 0..(NumClasses - 1)

InTraining ==
  pc \in {"epoch_loop", "next_batch", "forward", "criterion", "zero_grad",
          "backward", "clip", "optimizer_step", "log_loss", "scheduler_step",
          "print_lr"}

TrainingOver == ~InTraining /\ pc # "aborted"

EvalContexts == {"train_eval", "test_eval", "per_class"}

StepOrder == <<"forward", "loss", "zero_grad", "backward", "clip",
               "optimizer", "scheduler">>

\* C1: the scheduler is advanced exactly once per training batch.  Between
\* batches its step count equals the number of batches processed so far; it
\* never exceeds the total the scheduler was constructed with, which is
\* num_epochs * ceil(train_size / batch_size); and when the training loop has
\* finished it equals that total.
C1_SchedulerStepsOncePerBatch ==
  /\ total_steps = num_epochs * CeilDiv(train_size, batch_size)
  /\ last_epoch <= total_steps
  /\ err # "ValueError"
  /\ pc = "next_batch" =>
       last_epoch = epoch * CeilDiv(train_size, batch_size) + (i + 1)
  /\ TrainingOver => last_epoch = total_steps

C1_Witness ==
  /\ pc = "finished"
  /\ num_epochs >= 2
  /\ train_size % batch_size # 0
  /\ CeilDiv(train_size, batch_size) >= 2
  /\ last_epoch = total_steps

C3_StepOrderAndFreshGradient ==
  /\ IsPrefix(step_ops, StepOrder)
  /\ pc = "clip" => grad = batch_grad
  /\ pc = "optimizer_step" =>
       /\ grad = [p \in Params |-> clip_grad_value_(batch_grad[p], grad_clip)]
       /\ last_epoch = param_updates
       /\ lr = param_updates

C3_Witness ==
  /\ pc = "optimizer_step"
  /\ param_updates = 2
  /\ lr = 2
  /\ \E p \in Params : batch_grad[p] = -1 /\ grad[p] = -1

\* C4: every forward pass of the three evaluation loops runs with the
\* module's mode flag 'eval' (dropout is pass-through) and with gradient
\* computation disabled; dropout is active only in training-loop passes.
C4_EvalLoopsInInferenceMode ==
  IF fwd = None THEN TRUE
  ELSE /\ fwd.ctx \in EvalContexts =>
            fwd.mode = "eval" /\ ~fwd.dropout_active /\ ~fwd.grad_enabled
       /\ fwd.dropout_active => fwd.ctx = "train"

\* C5: two evaluations in a row over the unshuffled test pipeline, with no
\* training step in between, count the same: the overall correct/total of the
\* test-set loop equal the per-class correct/total of the per-class loop,
\* summed over the classes.
C5_EvaluationIdempotent ==
  pc = "report" =>
    /\ total = SumFn(class_total, Classes)
    /\ correct = SumFn(class_correct, Classes)

\* C6: a ragged last batch is handled by every loop: when a split's size is
\* not a multiple of batch_size no loop raises, the overall loops count every
\* sample once, and so does the per-class loop.
C6_RaggedLastBatchHandled ==
  /\ train_size % batch_size # 0 =>
       /\ pc \in {"train_eval", "train_eval_loop", "test_eval"} => err = "None"
       /\ pc = "test_eval" => total = train_size
  /\ (test_size # Unset /\ test_size % batch_size # 0) =>
       /\ err # "IndexError"
       /\ pc = "per_class" => total = test_size
       /\ pc = "report" => SumFn(class_total, Classes) = test_size

\* C7: once the per-class loop has gone through the whole test pipeline,
\* class_total[k] is the number of test samples labelled k, the totals sum to
\* the size of the test split, and class_correct[k] is the number of test
\* samples labelled k whose prediction was k, hence between 0 and
\* class_total[k].
C7_PerClassCounts ==
  pc = "report" =>
    /\ \A k \in Classes :
         /\ class_total[k] =
              Cardinality({j \in 1..test_size : TestLabel(j) = k})
         /\ class_correct[k] =
              Cardinality({j \in hits : TestLabel(j) = k})
         /\ 0 <= class_correct[k]
         /\ class_correct[k] <= class_total[k]
    /\ SumFn(class_total, Classes) = test_size

C7_Witness ==
  /\ pc = "report"
  /\ test_size = 4
  /\ batch_size = 2
  /\ class_total[0] = 2
  /\ class_total[1] = 2
  /\ class_correct[0] = 1
  /\ class_correct[1] = 2

\* C8: every forward pass maps an input of shape (n, 3, 32, 32) to an output
\* of shape (n, 10), and at both residual additions the two operands have the
\* same shape: (n, 128, 16, 16) at res1 and (n, 512, 4, 4) at res2.
C8_ForwardShapes ==
  IF fwd = None THEN TRUE
  ELSE /\ fwd.n >= 1
       /\ fwd.shapes.out = <<fwd.n, 10>>
       /\ fwd.shapes.res1_branch = <<fwd.n, 128, 16, 16>>
       /\ fwd.shapes.res1_skip = <<fwd.n, 128, 16, 16>>
       /\ fwd.shapes.res2_branch = <<fwd.n, 512, 4, 4>>
       /\ fwd.shapes.res2_skip = <<fwd.n, 512, 4, 4>>

C8_Witness ==
  /\ fwd # None
  /\ fwd.ctx = "train"
  /\ batch_size = 2
  /\ fwd.n = 1
  /\ fwd.shapes.out = <<1, 10>>

\* C9: every sample that fed an optimizer update belongs to the train split,
\* every sample counted by the test-set and per-class loops belongs to the
\* test split, and no sample is in both groups.
C9_TrainTestSeparation ==
  /\ \A x \in used_for_update : x[1] = "train"
  /\ \A x \in counted_in_test : x[1] = "test"
  /\ used_for_update \cap counted_in_test = {}
  /\ pc \in {"backward", "clip", "optimizer_step"} => data.split = "train"

C9_Witness ==
  /\ pc = "report"
  /\ Cardinality(used_for_update) = 3
  /\ Cardinality(counted_in_test) = 4

\* C10: every epoch emits exactly one loss line, at its last batch, whose
\* value is the sum of the losses of that epoch's batches over the number of
\* batches of the epoch; and the epoch's lr line reports the learning rate
\* right before and right after the epoch's last scheduler step.
C10_PerEpochReport ==
  /\ \A e \in 1..num_epochs : Count(stdout, <<"loss", e>>) <= 1
  /\ last_loss_line # None =>
       /\ it.remaining = {}
       /\ last_loss_line.epoch = epoch + 1
       /\ last_loss_line.sum = epoch_loss_sum
       /\ last_loss_line.batches = i + 1
       /\ last_loss_line.batches = CeilDiv(train_size, batch_size)
       /\ stdout[Len(stdout)] = <<"loss", epoch + 1>>
  /\ pc = "print_lr" => last_loss_line # None
  /\ pc = "epoch_loop" =>
       \A e \in 1..(epoch + 1) :
         /\ Count(stdout, <<"loss", e>>) = 1
         /\ Count(stdout, <<"lr", e,
                            e * CeilDiv(train_size, batch_size) - 1,
                            e * CeilDiv(train_size, batch_size)>>) = 1
         /\ Cardinality({k \in 1..Len(stdout) :
                           stdout[k][1] = "lr" /\ stdout[k][2] = e}) = 1

C10_Witness ==
  /\ pc = "print_lr"
  /\ epoch = 1
  /\ i = 1
  /\ last_loss_line = [epoch |-> 2, sum |-> 3, batches |-> 2]
  /\ before_lr = 3
  /\ after_lr = 4

\* The learning rate of schedule step k of this run.
LrAt(k) == get_lr(k, total_steps)

\* The schedule steps whose learning rate the run has used so far for an
\* update or is about to: 0 .. total_steps - 1 at most.
StepsSoFar == 0..Min(last_epoch, total_steps - 1)

\* The step 30% through the schedule, when that is a whole step; Unset when
\* it is not.
PeakStep ==
  IF (3 * total_steps) % 10 = 0 THEN (3 * total_steps) \div 10 - 1 ELSE Unset

\* C11: the learning rates of the training steps form one cycle indexed per
\* batch.  No rate exceeds max_lr; the rates rise strictly while the step is
\* in the warm-up phase and fall strictly afterwards, the warm-up steps all
\* coming first; the last training step runs at min_lr (0.0000004); and when
\* 30% of the total is a whole number of steps (as with 20000), step 0 runs
\* at initial_lr (0.004), the step 0.3 * total - 1 runs at exactly max_lr,
\* every step up to it is a warm-up step and every later one is not.
C11_OneCycleSchedule ==
  /\ \A k \in StepsSoFar :
       /\ LrUpper(LrAt(k)) <= max_lr
       /\ (k + 1) \in StepsSoFar =>
            /\ LrAt(k + 1).end_lr = max_lr => LrAt(k).end_lr = max_lr
            /\ LrAt(k + 1).end_lr = max_lr => LrLess(LrAt(k), LrAt(k + 1))
            /\ LrAt(k).end_lr = min_lr => LrLess(LrAt(k + 1), LrAt(k))
  /\ (total_steps - 1) \in StepsSoFar =>
       LrValue(LrAt(total_steps - 1)) = min_lr
  /\ PeakStep # Unset =>
       /\ LrValue(LrAt(0)) = initial_lr
       /\ \A k \in StepsSoFar :
            /\ k = PeakStep => LrValue(LrAt(k)) = max_lr
            /\ k <= PeakStep <=> LrAt(k).end_lr = max_lr

C11_Witness ==
  /\ pc = "finished"
  /\ total_steps = 10
  /\ last_epoch = 10
  /\ PeakStep = 2
  /\ LrValue(LrAt(2)) = max_lr
  /\ LrLess(LrAt(0), LrAt(1))
  /\ LrLess(LrAt(9), LrAt(3))

\* The statements of one training step, in the order they run, numbered from
\* the last one down.
StepRank ==
  [next_batch |-> 2, scheduler_step |-> 3, log_loss |-> 4, optimizer_step |-> 5,
   clip |-> 6, backward |-> 7, zero_grad |-> 8, criterion |-> 9, forward |-> 10]

\* A bound on the number of statements the training loop has still to run:
\* those of the epochs not started yet, of the batches the current epoch has
\* not drawn yet, and of the current step.
Rank ==
  IF ~InTraining THEN 0 - 1
  ELSE (num_epochs - (epoch + 1)) * (9 * train_size + 3)
       + (IF pc = "epoch_loop" THEN 0
          ELSE IF pc = "print_lr" THEN 1
          ELSE 9 * Cardinality(it.remaining) + StepRank[pc])

\* C12: the training loop terminates.  While it runs, the loader can always
\* yield the batch asked of it and every statement decreases the non-negative
\* bound Rank, so the loop ends; it ends in 'Finished Training' only after
\* exactly num_epochs epochs, taken in order without skipping or repeating
\* one, each of which
\* has made exactly one update per batch of the train pipeline over the whole
\* train split; 'Finished Training' is printed once, and no parameter update
\* happens after the loop has ended.
C12_TrainingTerminates ==
  /\ [](InTraining => Rank >= 0)
  /\ [](pc = "next_batch" /\ it.remaining # {} => NextBatches(it) # {})
  /\ [][InTraining => Rank' < Rank]_vars
  /\ [](pc = "finished" =>
          /\ epoch + 1 = num_epochs
          /\ param_updates = num_epochs * CeilDiv(train_size, batch_size)
          /\ err = "None")
  /\ [](pc = "print_lr" =>
          /\ i + 1 = CeilDiv(train_size, batch_size)
          /\ param_updates = (epoch + 1) * CeilDiv(train_size, batch_size)
          /\ used_for_update = {<<"train", k>> : k \in 1..train_size})
  /\ [](Count(stdout, <<"finished">>) =
          IF InTraining \/ pc = "finished" THEN 0
          ELSE IF pc = "aborted" THEN Min(1, Count(stdout, <<"finished">>))
          ELSE 1)
  /\ [][\/ epoch' = epoch
        \/ epoch' = epoch + 1 /\ pc = "epoch_loop" /\ epoch' < num_epochs]_vars
  /\ [][~InTraining => param_updates' = param_updates /\ ~InTraining']_vars

C12_Witness ==
  /\ pc = "train_eval"
  /\ num_epochs = 2
  /\ train_size = 3
  /\ batch_size = 2
  /\ param_updates = 4
  /\ stdout[Len(stdout)] = <<"finished">>

\* C13 as stated: in both residual blocks dropout is applied to the sum of the
\* branch and the skip input, so a zeroed element loses its skip value too.
C13_DropoutAfterSkipAddition ==
  fwd # None =>
    \A x \in ElemValues, b \in ElemValues, keep \in BOOLEAN :
      fwd.res[<<x, b, keep>>] = Dropout(b + x, 3, keep)

\* C13 amended: in both residual blocks dropout is the last layer of the
\* branch and is applied before the skip addition: the block returns
\* dropout(branch) + input, so the skip value always passes through in full
\* (an element whose branch is zeroed comes out equal to the input), and
\* without dropout the block returns branch + input.
C13_DropoutBeforeSkipAddition ==
  fwd # None =>
    \A x \in ElemValues, b \in ElemValues, keep \in BOOLEAN :
      /\ fwd.res[<<x, b, keep>>] = Dropout(b, 3, keep) + x
      /\ fwd.res[<<x, b, keep>>] >= x
      /\ (fwd.dropout_active /\ ~keep) => fwd.res[<<x, b, keep>>] = x
      /\ ~fwd.dropout_active => fwd.res[<<x, b, keep>>] = b + x

C13_Witness ==
  /\ fwd # None
  /\ fwd.ctx = "train"
  /\ fwd.dropout_active
  /\ fwd.res[<<7, 7, FALSE>>] = 7
  /\ fwd.res[<<7, 7, TRUE>>] = 17

\* C14: evaluation leaves the training state unchanged.  Once the training
\* loop has ended, no statement changes the parameters or the optimizer's
\* momentum buffers (both identified by the number of updates applied), the
\* learning rate the optimizer holds, or the scheduler's step index: after
\* the three evaluation loops they are what they were at 'Finished
\* Training'.  The parameters change only in optimizer.step() of the
\* training loop.
C14_EvaluationLeavesTrainingState ==
  /\ [][~InTraining => UNCHANGED <<param_updates, lr, last_epoch>>]_vars
  /\ [][param_updates' # param_updates =>
          /\ pc = "optimizer_step"
          /\ param_updates' = param_updates + 1]_vars
  /\ [](TrainingOver =>
          /\ param_updates = total_steps
          /\ lr = total_steps
          /\ last_epoch = total_steps)

C14_Witness ==
  /\ pc = "report"
  /\ test_size = 4
  /\ param_updates = 4
  /\ lr = 4
  /\ last_epoch = 4
  /\ num_batches_tracked = 4 + 2 + 2 + 2

\* C15: a non-finite loss is detected and aborts the run.  From the moment
\* criterion has returned a NaN loss the run does nothing but abort: the
\* step's backward pass and update are not run, the parameters stay finite,
\* and no training step, log line or accuracy report follows.
C15_NonFiniteLossAborts ==
  /\ loss = NaN => pc \in {"zero_grad", "aborted"}
  /\ ~params_nan
  /\ \A k \in 1..Len(stdout) :
       stdout[k][1] = "loss" => epoch_loss_sum # NaN

\* The lines of epochs 1 .. n: for each epoch its loss line, then its lr line
\* (the schedule positions around the epoch's last scheduler step).
RECURSIVE EpochLines(_)
EpochLines(n) ==
  IF n = 0 THEN <<>>
  ELSE EpochLines(n - 1) \o
       << <<"loss", n>>,
          <<"lr", n, n * CeilDiv(train_size, batch_size) - 1,
            n * CeilDiv(train_size, batch_size)>> >>

\* Everything a run that completes prints, in order.
ExpectedOutput ==
  EpochLines(num_epochs) \o
  << <<"finished">>, <<"train_accuracy">>, <<"test_accuracy">>,
     <<"class", "plane">>, <<"class", "car">>, <<"class", "bird">>,
     <<"class", "cat">>, <<"class", "deer">>, <<"class", "dog">>,
     <<"class", "frog">>, <<"class", "horse">>, <<"class", "ship">>,
     <<"class", "truck">> >>

\* C16: stages and their output occur in strict sequence.  What has been
\* printed is always an initial part of: for each epoch 1 .. num_epochs in
\* increasing order its loss line then its lr line, 'Finished Training', the
\* train-set accuracy, the test-set accuracy, and the ten per-class lines in
\* the order plane, car, bird, cat, deer, dog, frog, horse, ship, truck; a
\* run that completes has printed all of it, each line once.  No training
\* step runs once an evaluation forward pass has been made.
C16_StrictSequence ==
  /\ IsPrefix(stdout, ExpectedOutput)
  /\ pc = "done" => stdout = ExpectedOutput
  /\ pc = "done" =>
       \A k \in 1..Len(stdout), m \in 1..Len(stdout) :
         stdout[k] = stdout[m] => k = m
  /\ InTraining => (fwd = None \/ fwd.ctx = "train")
  /\ (fwd # None /\ fwd.ctx \in EvalContexts) =>
       /\ ~InTraining
       /\ param_updates = total_steps
  /\ pc \in {"train_eval", "train_eval_loop"} =>
       stdout[Len(stdout)] = <<"finished">>
  /\ pc \in {"test_eval", "test_eval_loop"} =>
       stdout[Len(stdout)] = <<"train_accuracy">>
  /\ pc \in {"per_class", "per_class_loop"} =>
       stdout[Len(stdout)] = <<"test_accuracy">>

C16_Witness ==
  /\ pc = "done"
  /\ num_epochs = 2
  /\ CeilDiv(train_size, batch_size) = 2
  /\ Len(stdout) = 2 * 2 + 3 + 10
  /\ stdout[1] = <<"loss", 1>>
  /\ stdout[4] = <<"lr", 2, 3, 4>>
  /\ stdout[Len(stdout)] = <<"class", "truck">>

\* C17: the per-class report is total over test sets: whatever classes occur
\* in the test split, the report never divides by a class_total of 0 (no
\* ZeroDivisionError), and once the per-class loop has gone through the whole
\* test split the report goes on to print a line for each of the ten classes.
C17_PerClassReportTotal ==
  /\ err # "ZeroDivisionError"
  /\ pc = "report" => class_total[i] # 0
  /\ pc = "report" => \A k \in Classes : class_total[k] # 0

====
